---- MODULE Spec2Model ----
(***************************************************************************)
(* Expense form (ExpenseForm / ExpenseFormBody, prepareExpenseForSubmit,   *)
(* validate) and member edit modal (EditMemberModal) of the frontend.      *)
(*                                                                         *)
(* JavaScript objects are functions from key strings to values; a key that *)
(* is missing from the domain is a key the object does not have.  Values   *)
(* whose JavaScript type matters (a payee id is a string or a number, a    *)
(* payee or payout method is an object, undefined or null) are tagged      *)
(* records, see JSUndefined, JSNull, Str, Num.                             *)
(***************************************************************************)
EXTENDS Integers, Sequences, FiniteSets, TLC

\* ------------------------------------------------------------------------
\* Bounds of the model
\* ------------------------------------------------------------------------
MaxItems == 2
MaxFormItems == 1

\* ------------------------------------------------------------------------
\* JavaScript values
\* ------------------------------------------------------------------------
JSUndefined == [jstype |-> "undefined"]
JSNull == [jstype |-> "null"]
Str(s) == [jstype |-> "string", v |-> s]
Num(n) == [jstype |-> "number", v |-> n]

EmptyObject == [k \in {} |-> JSUndefined]

typeof(x) == IF "jstype" \in DOMAIN x THEN x.jstype ELSE "object"

\* o?.k and lodash get(o, k): undefined when the key is missing
Get(o, k) == IF k \in DOMAIN o THEN o[k] ELSE JSUndefined

\* JavaScript truthiness of an object-valued field (an object, undefined or null)
IsSet(x) == x # JSUndefined /\ x # JSNull

\* JavaScript truthiness of o.k for a boolean flag, a string and a number
IsTrue(o, k) == k \in DOMAIN o /\ o[k] = TRUE
StrSet(o, k) == k \in DOMAIN o /\ o[k] # ""
NumSet(o, k) == k \in DOMAIN o /\ o[k] # 0

\* o.k === s for a string s
StrEq(o, k, s) == k \in DOMAIN o /\ o[k] = s

\* lodash isEmpty on an object
isEmpty(o) == DOMAIN o = {}

\* lodash pick(object, keys): the keys of the list that the object has
pick(o, keys) == [k \in (DOMAIN o) \cap keys |-> o[k]]

\* lib/constants/expenseTypes and lib/constants/payout-method
INVOICE == "INVOICE"
RECEIPT == "RECEIPT"
PayoutMethodType == [BANK_ACCOUNT |-> "BANK_ACCOUNT", OTHER_METHOD |-> "OTHER"]

\* createError(ERROR.FORM_FIELD_REQUIRED)
FORM_FIELD_REQUIRED == [type |-> "FORM_FIELD_REQUIRED"]

\* the fields whose values are objects and numbers; the others hold strings
ObjectFields == {"payee", "payoutMethod"}
NumberFields == {"amount"}

\* JavaScript truthiness of o.k
Truthy(o, k) ==
    /\ k \in DOMAIN o
    /\ IF k \in ObjectFields THEN IsSet(o[k])
       ELSE IF k \in NumberFields THEN o[k] # 0
       ELSE o[k] # ""

\* ------------------------------------------------------------------------
\* prepareExpenseForSubmit
\* ------------------------------------------------------------------------
PreparePickedFields == {"id", "description", "type", "privateMessage", "invoiceInfo", "tags"}
PayoutMethodPickedFields == {"id", "name", "data", "isSaved", "type"}

\* variant: the payee identifier always sent under `id`
payeeIdFieldAlwaysId(expenseData) == "id"

\* typeof expenseData.payee?.id === 'string' ? 'id' : 'legacyId'
payeeIdField(expenseData) ==
    IF IsSet(Get(expenseData, "payee")) /\ typeof(Get(expenseData.payee, "id")) = "string"
    THEN "id"
    ELSE "legacyId"

\* variant: `url` picked whatever the expense type
itemPickedFieldsWithUrl(expenseData, item) ==
    (IF IsTrue(item, "__isNew") THEN {} ELSE {"id"})
        \cup {"url", "description", "incurredAt", "amount"}

\* variant: `id` picked whatever the item's __isNew flag
itemPickedFieldsWithId(expenseData, item) ==
    {"id"}
        \cup (IF StrEq(expenseData, "type", INVOICE) THEN {} ELSE {"url"})
        \cup {"description", "incurredAt", "amount"}

\* the keys picked from one item
itemPickedFields(expenseData, item) ==
    (IF IsTrue(item, "__isNew") THEN {} ELSE {"id"})
        \cup (IF StrEq(expenseData, "type", INVOICE) THEN {} ELSE {"url"})
        \cup {"description", "incurredAt", "amount"}

prepareItem(expenseData, item) == pick(item, itemPickedFields(expenseData, item))

\* expenseData.payee && { [payeeIdField]: expenseData.payee.id }
preparePayee(expenseData) ==
    IF IsSet(Get(expenseData, "payee"))
    THEN payeeIdField(expenseData) :> Get(expenseData.payee, "id")
    ELSE Get(expenseData, "payee")

preparePayoutMethod(expenseData) ==
    IF IsSet(Get(expenseData, "payoutMethod"))
    THEN pick(expenseData.payoutMethod, PayoutMethodPickedFields)
    ELSE EmptyObject

prepareExpenseForSubmit(expenseData) ==
    pick(expenseData, PreparePickedFields)
        @@ [payee |-> preparePayee(expenseData),
            payoutMethod |-> preparePayoutMethod(expenseData),
            attachedFiles |->
                IF "attachedFiles" \in DOMAIN expenseData
                THEN [i \in DOMAIN expenseData.attachedFiles |->
                        pick(expenseData.attachedFiles[i], {"id", "url"})]
                ELSE JSUndefined,
            items |-> [i \in DOMAIN expenseData.items |->
                        prepareItem(expenseData, expenseData.items[i])]]

\* ------------------------------------------------------------------------
\* validate
\* ------------------------------------------------------------------------
\* lib/form-utils requireFields: a required-field error keyed by each field of
\* the list whose value is missing or empty
requireFields(obj, fields) ==
    [k \in {f \in fields : ~Truthy(obj, f)} |-> FORM_FIELD_REQUIRED]

\* ExpenseItemForm validateExpenseItem: the item validator, a pure function of
\* the expense and the item
validateExpenseItem(expense, item) ==
    requireFields(item,
        {"description", "incurredAt", "amount"}
            \cup (IF StrEq(expense, "type", RECEIPT) THEN {"url"} ELSE {}))

\* PayoutMethodForm validatePayoutMethod: the payout method validator, a pure
\* function of the payout method
validatePayoutMethod(payoutMethod) == requireFields(payoutMethod, {"data"})

RequiredExpenseFields == {"description", "payee", "payoutMethod", "currency"}

itemsErrors(expense) ==
    [i \in DOMAIN expense.items |-> validateExpenseItem(expense, expense.items[i])]

\* variant: items errors attached only when every item has errors
validateEveryItem(expense) ==
    LET errors0 == requireFields(expense, RequiredExpenseFields)
        hasErrors == \A i \in DOMAIN expense.items : ~isEmpty(itemsErrors(expense)[i])
        errors1 == IF Len(expense.items) > 0 /\ hasErrors
                   THEN ("items" :> itemsErrors(expense)) @@ errors0
                   ELSE errors0
    IN  IF IsSet(Get(expense, "payoutMethod"))
           /\ ~isEmpty(validatePayoutMethod(expense.payoutMethod))
        THEN ("payoutMethod" :> validatePayoutMethod(expense.payoutMethod)) @@ errors1
        ELSE errors1

validate(expense) ==
    LET errors0 == requireFields(expense, RequiredExpenseFields)
        hasErrors == \E i \in DOMAIN expense.items : ~isEmpty(itemsErrors(expense)[i])
        errors1 == IF Len(expense.items) > 0 /\ hasErrors
                   THEN ("items" :> itemsErrors(expense)) @@ errors0
                   ELSE errors0
    IN  IF IsSet(Get(expense, "payoutMethod"))
           /\ ~isEmpty(validatePayoutMethod(expense.payoutMethod))
        THEN ("payoutMethod" :> validatePayoutMethod(expense.payoutMethod)) @@ errors1
        ELSE errors1

\* ------------------------------------------------------------------------
\* The values the model draws its inputs from
\* ------------------------------------------------------------------------
\* payout profiles (API v2 accounts: string id, numeric legacyId) and a profile
\* created on the fly by the collective picker (API v1: numeric id)
ProfileV2 == [id |-> Str("abc"), legacyId |-> Num(42)]
ProfileV2Bare == [id |-> Str("abc")]
ProfileV1 == [id |-> Num(43)]
ProfileV1Legacy == [id |-> Num(42), legacyId |-> Num(42)]
Payees == {ProfileV2, ProfileV2Bare, ProfileV1, ProfileV1Legacy}

BankPayoutMethod ==
    [id |-> "pm1", name |-> "bank", type |-> PayoutMethodType.BANK_ACCOUNT,
     data |-> "iban", isSaved |-> TRUE]
OtherPayoutMethod ==
    [id |-> "pm2", name |-> "other", type |-> PayoutMethodType.OTHER_METHOD,
     data |-> "note", isSaved |-> TRUE]
\* a payout method being created in the form: no id yet, details not filled in
NewPayoutMethod == [type |-> PayoutMethodType.OTHER_METHOD, data |-> "", isSaved |-> FALSE]
PayoutMethods == {BankPayoutMethod, OtherPayoutMethod, NewPayoutMethod}

\* line items: an optional url, an optional __isNew flag
ItemBase(d) == [id |-> "item", description |-> d, incurredAt |-> "2020-01-01", amount |-> 100]
Items ==
    {ItemBase(d) @@ u @@ n :
        d \in {"", "lunch"},
        u \in {EmptyObject, [url |-> "http"]},
        n \in {EmptyObject, "__isNew" :> TRUE, "__isNew" :> FALSE}}

SeqsUpTo(S, n) == UNION {[1..k -> S] : k \in 0..n}

\* draft expenses handed to prepareExpenseForSubmit and validate
Drafts ==
    {t @@ [description |-> d, items |-> its, payee |-> p, payoutMethod |-> pm,
           privateInfo |-> "", currency |-> c] :
        t \in {EmptyObject, [type |-> RECEIPT], [type |-> INVOICE]},
        d \in {"", "dinner"},
        its \in SeqsUpTo(Items, MaxItems),
        p \in {JSUndefined} \cup Payees,
        pm \in {JSUndefined, BankPayoutMethod, NewPayoutMethod},
        c \in {"", "USD"}}

\* ------------------------------------------------------------------------
\* State
\* ------------------------------------------------------------------------
VARIABLES
    expenseData,      \* the draft a caller hands to the exported functions
    called,           \* the function called on it, "none" before the call
    returned,         \* what the call returned
    payoutProfiles,   \* ExpenseForm prop: the profiles the user has access to
    transferwise,     \* collective.host.transferwise is set
    expense,          \* ExpenseForm prop: the expense being edited, if any
    validateOnChange, \* ExpenseForm prop
    hasPersister,     \* ExpenseForm prop formPersister is given
    store,            \* the draft the persister holds, JSNull when none
    hasValidate,      \* React state of ExpenseForm
    initialValues,    \* Formik's initial values, fixed at mount
    values,           \* formik.values
    errors,           \* formik.errors
    event,            \* the handler that ran last
    calls,            \* the calls it made to onSubmit and the persister, in order
    memberForm,       \* the values of the member sub-form (MemberForm)
    submitMemberForm, \* EditMemberModal: the bound sub-form submit function, or null
    submitting,       \* EditMemberModal: React state
    formSubmits,      \* submissions of the sub-form that submitMemberForm() started
    mutations,        \* the editMember mutations issued, with their state
    modalCalls,       \* what the last run of handleSubmitForm called, in order
    thrown            \* the error the last handler of the modal ended with, "none" if none

pureVars == <<expenseData, called, returned>>
formVars ==
    <<payoutProfiles, transferwise, expense, validateOnChange, hasPersister, store,
      hasValidate, initialValues, values, errors, event, calls>>
modalVars ==
    <<memberForm, submitMemberForm, submitting, formSubmits, mutations, modalCalls, thrown>>
vars == <<pureVars, formVars, modalVars>>

\* ------------------------------------------------------------------------
\* The exported pure functions applied to a draft
\* ------------------------------------------------------------------------
FormIdle ==
    /\ payoutProfiles = <<>>
    /\ transferwise = FALSE
    /\ expense = EmptyObject
    /\ validateOnChange = FALSE
    /\ hasPersister = FALSE
    /\ store = JSNull
    /\ hasValidate = FALSE
    /\ initialValues = EmptyObject
    /\ values = EmptyObject
    /\ errors = EmptyObject
    /\ event = "none"
    /\ calls = <<>>

ModalIdle ==
    /\ memberForm = EmptyObject
    /\ submitMemberForm = "null"
    /\ submitting = FALSE
    /\ formSubmits = 0
    /\ mutations = <<>>
    /\ modalCalls = <<>>
    /\ thrown = "none"

InitPure ==
    /\ expenseData \in Drafts
    /\ called = "none"
    /\ returned = EmptyObject
    /\ FormIdle
    /\ ModalIdle

CallPrepareExpenseForSubmit ==
    /\ called = "none"
    /\ called' = "prepareExpenseForSubmit"
    /\ returned' = prepareExpenseForSubmit(expenseData)
    /\ UNCHANGED <<expenseData, formVars, modalVars>>

CallValidate ==
    /\ called = "none"
    /\ called' = "validate"
    /\ returned' = validate(expenseData)
    /\ UNCHANGED <<expenseData, formVars, modalVars>>

NextPure == CallPrepareExpenseForSubmit \/ CallValidate

SpecPure == InitPure /\ [][NextPure]_vars

\* ------------------------------------------------------------------------
\* ExpenseForm and ExpenseFormBody
\* ------------------------------------------------------------------------
CollectiveCurrency == "USD"

\* lodash first
first(list) == IF list = <<>> THEN JSUndefined ELSE list[1]

getDefaultExpense(profiles) ==
    [description |-> "",
     items |-> <<>>,
     payee |-> first(profiles),
     payoutMethod |-> JSUndefined,
     privateInfo |-> "",
     currency |-> CollectiveCurrency]

\* initialValues={{ ...getDefaultExpense(collective, payoutProfiles), ...expense }}
InitialValuesOf(profiles, exp) == exp @@ getDefaultExpense(profiles)

\* the `expense` prop: none, an expense of the API being edited, and an expense
\* that pre-fills the form without a payee (the prop's shape asks for none)
ExistingItem ==
    [id |-> "item1", description |-> "lunch", incurredAt |-> "2020-01-01", amount |-> 100]
ExistingExpense ==
    [id |-> "expense1", type |-> INVOICE, description |-> "dinner",
     items |-> <<ExistingItem>>, payee |-> ProfileV2, payoutMethod |-> BankPayoutMethod]
PrefilledExpense ==
    [type |-> INVOICE, description |-> "dinner",
     items |-> <<ExistingItem>>, payoutMethod |-> BankPayoutMethod]
ExpenseProps == {EmptyObject, ExistingExpense, PrefilledExpense}

\* ExpenseFormItems addNewExpenseItem: a blank item with a locally generated key
NewItem(n) ==
    [id |-> IF n = 1 THEN "uuid1" ELSE "uuid2", description |-> "", incurredAt |-> "",
     amount |-> 0, url |-> ""] @@ ("__isNew" :> TRUE)

\* what the user types into an item's fields
ItemEdits ==
    {[description |-> "", incurredAt |-> "", amount |-> 0, url |-> ""]}
        \cup {[description |-> "lunch", incurredAt |-> "2020-01-01", amount |-> 100, url |-> u] :
                u \in {"", "http"}}

\* the values the render derives
hasBaseFormFieldsCompleted(v) == StrSet(v, "type") /\ StrSet(v, "description")

\* variant: step one completed without looking at the items
stepOneCompletedNoItems(v) == hasBaseFormFieldsCompleted(v)

stepOneCompleted(v) == hasBaseFormFieldsCompleted(v) /\ Len(v.items) > 0
stepTwoCompleted(v) == stepOneCompleted(v) /\ IsSet(v.payoutMethod)

\* formik.isValid
isValid(errs) == isEmpty(errs)

\* the submit button's disabled={!stepTwoCompleted || !formik.isValid}
submitDisabled(v, errs) == ~stepTwoCompleted(v) \/ ~isValid(errs)

\* formik.dirty
dirtyOf(v, init) == v # init

\* variant: the bank account payout method reset whatever the host has
ResetPayoutMethodAnyHost(formValues, tw) ==
    IF /\ IsSet(Get(formValues, "payoutMethod"))
       /\ StrEq(formValues.payoutMethod, "type", PayoutMethodType.BANK_ACCOUNT)
    THEN [formValues EXCEPT !.payoutMethod = JSUndefined]
    ELSE formValues

\* the load effect's reset of a bank account payout method when the host has
\* no TransferWise
ResetPayoutMethod(formValues, tw) ==
    IF /\ IsSet(Get(formValues, "payoutMethod"))
       /\ StrEq(formValues.payoutMethod, "type", PayoutMethodType.BANK_ACCOUNT)
       /\ ~tw
    THEN [formValues EXCEPT !.payoutMethod = JSUndefined]
    ELSE formValues

LoadCall(ret) == [fn |-> "loadValues", arg |-> ret]
SaveCall(v) == [fn |-> "saveValues", arg |-> v]
SubmitCall(v) == [fn |-> "onSubmit", arg |-> v]

\* Formik's validation after a change of the values: validate={hasValidate && validate}
ErrorsAfterChange(hv, v) == IF hv THEN validate(v) ELSE EmptyObject

\* The effects of ExpenseFormBody after a render with values v, where wasDirty is
\* formik.dirty at the previous render: the load effect runs again when dirty
\* has changed, the save effect when the values or dirty have changed; a
\* setValues of the load effect renders again and the save effect follows.
RunEffects(v, wasDirty, init, hp, st, tw) ==
    LET dirty == dirtyOf(v, init)
        loaded == ResetPayoutMethod(st, tw)
    IN  IF ~hp THEN [values |-> v, store |-> st, calls |-> <<>>]
        ELSE IF ~dirty /\ wasDirty
        THEN IF st = JSNull
             THEN [values |-> v, store |-> st, calls |-> <<LoadCall(st)>>]
             ELSE IF dirtyOf(loaded, init)
             THEN [values |-> loaded, store |-> loaded,
                   calls |-> <<LoadCall(st), SaveCall(loaded)>>]
             ELSE [values |-> loaded, store |-> st, calls |-> <<LoadCall(st)>>]
        ELSE IF dirty
        THEN [values |-> v, store |-> v, calls |-> <<SaveCall(v)>>]
        ELSE [values |-> v, store |-> st, calls |-> <<>>]

\* The payee effect at mount: the first payout profile when no payee is set
DefaultPayee(v, profiles) ==
    IF ~IsSet(v.payee) /\ profiles # <<>>
    THEN [v EXCEPT !.payee = first(profiles)]
    ELSE v

\* The first render of the form and its effects, in the order of the source:
\* the payee effect, the load effect (formik.dirty is false at mount), the save
\* effect; then the render the effects' changes cause and its save effect.
MountForm(profiles, tw, exp, voc, hp, st) ==
    LET init == InitialValuesOf(profiles, exp)
        v1 == DefaultPayee(init, profiles)
        loads == hp
        v2 == IF loads /\ st # JSNull THEN ResetPayoutMethod(st, tw) ELSE v1
        saves == hp /\ dirtyOf(v2, init)
    IN  [initialValues |-> init,
         values |-> v2,
         errors |-> IF v1 # init \/ (loads /\ st # JSNull)
                    THEN ErrorsAfterChange(voc, v2)
                    ELSE EmptyObject,
         store |-> IF saves THEN v2 ELSE st,
         calls |-> (IF loads THEN <<LoadCall(st)>> ELSE <<>>)
                    \o (IF saves THEN <<SaveCall(v2)>> ELSE <<>>)]

PureIdle ==
    /\ expenseData = EmptyObject
    /\ called = "none"
    /\ returned = EmptyObject

InitForm ==
    /\ PureIdle
    /\ ModalIdle
    /\ payoutProfiles \in {<<>>, <<ProfileV2>>}
    /\ transferwise \in BOOLEAN
    /\ expense \in ExpenseProps
    /\ validateOnChange \in BOOLEAN
    /\ hasPersister \in BOOLEAN
    /\ hasValidate = validateOnChange
    /\ LET m == MountForm(payoutProfiles, transferwise, expense, validateOnChange,
                          hasPersister, JSNull)
       IN  /\ initialValues = m.initialValues
           /\ values = m.values
           /\ errors = m.errors
           /\ store = m.store
           /\ calls = m.calls
    /\ event = "mount"

\* A fresh session of the form with the same props and the same persister;
\* the collective's host may have connected or disconnected TransferWise
Remount(tw) ==
    LET m == MountForm(payoutProfiles, tw, expense, validateOnChange, hasPersister, store)
    IN  /\ transferwise' = tw
        /\ hasValidate' = validateOnChange
        /\ initialValues' = m.initialValues
        /\ values' = m.values
        /\ errors' = m.errors
        /\ store' = m.store
        /\ calls' = m.calls
        /\ event' = "mount"
        /\ UNCHANGED <<pureVars, modalVars, payoutProfiles, expense, validateOnChange, hasPersister>>

\* formik.setFieldValue / setValues from a handler: Formik's validation, the
\* render and the effects.  The tags, invoiceInfo and privateInfo fields change
\* the values the same way; no condition of the form reads them.
Change(v, name) ==
    LET r == RunEffects(v, dirtyOf(values, initialValues), initialValues,
                        hasPersister, store, transferwise)
    IN  /\ values' = r.values
        /\ store' = r.store
        /\ calls' = r.calls
        /\ errors' = ErrorsAfterChange(hasValidate, r.values)
        /\ event' = name
        /\ UNCHANGED <<pureVars, modalVars, payoutProfiles, transferwise, expense, validateOnChange,
                       hasPersister, hasValidate, initialValues>>

\* ExpenseTypeRadioSelect onChange
SetType(t) ==
    /\ t \in {RECEIPT, INVOICE}
    /\ Change([type |-> t] @@ values, "change")

\* the description field, rendered once a type is set
SetDescription(d) ==
    /\ StrSet(values, "type")
    /\ Change([values EXCEPT !.description = d], "change")

\* the add item button: addNewExpenseItem(formik)
AddItem ==
    /\ StrSet(values, "type")
    /\ Len(values.items) < MaxFormItems
    /\ Change([values EXCEPT !.items = Append(@, NewItem(Len(@) + 1))], "change")

\* the fields of one item (ExpenseFormItems)
EditItem(i, edit) ==
    /\ StrSet(values, "type")
    /\ i \in DOMAIN values.items
    /\ Change([values EXCEPT !.items[i] = edit @@ @], "change")

\* the remove button of one item (ExpenseFormItems)
RemoveItem(i) ==
    /\ StrSet(values, "type")
    /\ i \in DOMAIN values.items
    /\ Change([values EXCEPT !.items =
                  [j \in 1..(Len(@) - 1) |-> IF j < i THEN @[j] ELSE @[j + 1]]], "change")

\* CollectivePicker onChange: the payee, and the payout method reset to null
SetPayee(p) ==
    /\ StrSet(values, "type")
    /\ stepOneCompleted(values)
    /\ Change([values EXCEPT !.payee = p, !.payoutMethod = JSNull], "change")

\* PayoutMethodSelect onChange; the select is disabled while no payee is set
SetPayoutMethod(pm) ==
    /\ StrSet(values, "type")
    /\ stepOneCompleted(values)
    /\ IsSet(values.payee)
    /\ Change([values EXCEPT !.payoutMethod = pm], "change")

\* PayoutMethodForm: the details of a payout method being created in the form
EditPayoutMethodData(data) ==
    /\ StrSet(values, "type")
    /\ stepOneCompleted(values)
    /\ IsSet(values.payoutMethod)
    /\ ~values.payoutMethod.isSaved
    /\ Change([values EXCEPT !.payoutMethod.data = data], "change")

\* the payoutProfiles prop changes when the user logs in: the payee effect
ProfilesLoaded ==
    /\ payoutProfiles = <<>>
    /\ payoutProfiles' = <<ProfileV2>>
    /\ LET r == RunEffects(DefaultPayee(values, payoutProfiles'),
                           dirtyOf(values, initialValues), initialValues,
                           hasPersister, store, transferwise)
       IN  IF IsSet(values.payee)
           THEN /\ calls' = <<>>
                /\ UNCHANGED <<values, store, errors>>
           ELSE /\ values' = r.values
                /\ store' = r.store
                /\ calls' = r.calls
                /\ errors' = ErrorsAfterChange(hasValidate, r.values)
    /\ event' = "profiles"
    /\ UNCHANGED <<pureVars, modalVars, transferwise, expense, validateOnChange, hasPersister,
                   hasValidate, initialValues>>

\* variant: the handler passes the values on without validating them
onSubmitHandlerNoValidate(v) ==
    [setValidate |-> FALSE, errors |-> EmptyObject, calls |-> <<SubmitCall(v)>>]

\* variant: a failed attempt sets the errors but leaves the validation mode
onSubmitHandlerNoSetValidate(v) ==
    IF ~isEmpty(validate(v))
    THEN [setValidate |-> FALSE, errors |-> validate(v), calls |-> <<>>]
    ELSE [setValidate |-> FALSE, errors |-> EmptyObject, calls |-> <<SubmitCall(v)>>]

\* Formik's onSubmit prop of ExpenseForm
onSubmitHandler(v) ==
    IF ~isEmpty(validate(v))
    THEN [setValidate |-> TRUE, errors |-> validate(v), calls |-> <<>>]
    ELSE [setValidate |-> FALSE, errors |-> EmptyObject, calls |-> <<SubmitCall(v)>>]

\* A submit attempt (the submit button, enabled): Formik validates with the
\* validate prop, if any, and calls the onSubmit prop when that finds no error
Submit ==
    /\ ~submitDisabled(values, errors)
    /\ LET formikErrors == ErrorsAfterChange(hasValidate, values)
           h == onSubmitHandler(values)
       IN  IF ~isEmpty(formikErrors)
           THEN /\ errors' = formikErrors
                /\ calls' = <<>>
                /\ UNCHANGED hasValidate
           ELSE /\ errors' = h.errors
                /\ calls' = h.calls
                /\ hasValidate' = (hasValidate \/ h.setValidate)
    /\ event' = "submit"
    /\ UNCHANGED <<pureVars, modalVars, payoutProfiles, transferwise, expense, validateOnChange,
                   hasPersister, store, initialValues, values>>

NextForm ==
    \/ \E t \in {RECEIPT, INVOICE} : SetType(t)
    \/ \E d \in {"", "dinner"} : SetDescription(d)
    \/ AddItem
    \/ \E i \in 1..MaxFormItems, edit \in ItemEdits : EditItem(i, edit)
    \/ \E i \in 1..MaxFormItems : RemoveItem(i)
    \/ \E p \in {ProfileV2, ProfileV1} : SetPayee(p)
    \/ \E pm \in {BankPayoutMethod, NewPayoutMethod} : SetPayoutMethod(pm)
    \/ \E data \in {"", "note"} : EditPayoutMethodData(data)
    \/ ProfilesLoaded
    \/ Submit
    \/ \E tw \in BOOLEAN : Remount(tw)

SpecForm == InitForm /\ [][NextForm]_vars

\* ------------------------------------------------------------------------
\* EditMemberModal
\* ------------------------------------------------------------------------
MaxMutations == 2

MemberSlug == "member-slug"
CollectiveSlug == "collective-slug"

\* the member sub-form's fields
MemberFormValues ==
    [role : {Str("ADMIN"), Str("MEMBER")},
     description : {Str(""), Str("treasurer")},
     since : {Str("2020-01-01"), Str("2021-01-01")}]

\* the click event the confirm button hands to its onClick handler: an object
\* with none of the member form's fields
ClickEvent == [type |-> Str("click")]

\* the variables of the editMember mutation that handleSubmitForm(arg) issues
mutationVariables(arg) ==
    [memberAccount |-> [slug |-> MemberSlug],
     account |-> [slug |-> CollectiveSlug],
     description |-> Get(arg, "description"),
     role |-> Get(arg, "role"),
     since |-> Get(arg, "since")]

InitModal ==
    /\ PureIdle
    /\ FormIdle
    /\ memberForm \in MemberFormValues
    /\ submitMemberForm = "null"
    /\ submitting = FALSE
    /\ formSubmits = 0
    /\ mutations = <<>>
    /\ modalCalls = <<>>
    /\ thrown = "none"

\* MemberForm binds its submit function: bindSubmitForm(submitForm)
bindSubmitForm ==
    /\ submitMemberForm = "null"
    /\ submitMemberForm' = "submitForm"
    /\ UNCHANGED <<pureVars, formVars, memberForm, submitting, formSubmits, mutations,
                   modalCalls, thrown>>

\* the user edits a field of the member sub-form
EditMemberForm(field, value) ==
    /\ \E m \in MemberFormValues : m[field] = value
    /\ memberForm[field] # value
    /\ memberForm' = [memberForm EXCEPT ![field] = value]
    /\ UNCHANGED <<pureVars, formVars, submitMemberForm, submitting, formSubmits, mutations,
                   modalCalls, thrown>>

\* handleSubmitForm(arg) up to its await: the sub-form's submit function is
\* called, then the mutation is issued; nothing happens when none is bound.
\* Each mutation is kept with the handler's caller and the member form's values
\* at the time it was issued.
handleSubmitForm(arg, from) ==
    /\ IF submitMemberForm # "null"
       THEN /\ formSubmits' = formSubmits + 1
            /\ mutations' = Append(mutations,
                                [variables |-> mutationVariables(arg), state |-> "inflight",
                                 from |-> from, form |-> memberForm])
            /\ modalCalls' = <<"submitMemberForm", "editMemberAccount">>
       ELSE /\ modalCalls' = <<>>
            /\ UNCHANGED <<formSubmits, mutations>>
    /\ thrown' = "none"
    /\ UNCHANGED <<pureVars, formVars, memberForm, submitMemberForm, submitting>>

\* the confirm button: onClick={handleSubmitForm}, called with the click event;
\* the button is loading while submitting
Confirm ==
    /\ ~submitting
    /\ Len(mutations) < MaxMutations
    /\ handleSubmitForm(ClickEvent, "confirm")

\* MemberForm submits and calls its triggerSubmit prop, which is
\* handleSubmitForm, with the sub-form's values
TriggerSubmit ==
    /\ formSubmits > 0
    /\ Len(mutations) < MaxMutations
    /\ handleSubmitForm(memberForm, "triggerSubmit")

\* the mutation resolves: handleSubmitForm resumes after its await and calls
\* setSubmitting(true)
MutationResolved(i) ==
    /\ i \in DOMAIN mutations
    /\ mutations[i].state = "inflight"
    /\ mutations' = [mutations EXCEPT ![i].state = "resolved"]
    /\ submitting' = TRUE
    /\ thrown' = "none"
    /\ UNCHANGED <<pureVars, formVars, memberForm, submitMemberForm, formSubmits, modalCalls>>

\* the mutation fails: the await throws the mutation's error, which nothing in
\* handleSubmitForm catches, so its promise rejects with that error
MutationRejected(i) ==
    /\ i \in DOMAIN mutations
    /\ mutations[i].state = "inflight"
    /\ mutations' = [mutations EXCEPT ![i].state = "rejected"]
    /\ thrown' = "mutationError"
    /\ UNCHANGED <<pureVars, formVars, memberForm, submitMemberForm, submitting, formSubmits,
                   modalCalls>>

\* The confirm button of the modal's other version (continueHandler prop): its
\* onClick calls setSubmitting, which that version does not declare, so the
\* call in the try block throws a ReferenceError before continueHandler is
\* reached, and the call in the catch block throws it again.
ConfirmContinue ==
    /\ thrown' = "ReferenceError"
    /\ modalCalls' = <<>>
    /\ UNCHANGED <<pureVars, formVars, memberForm, submitMemberForm, submitting, formSubmits,
                   mutations>>

NextModal ==
    \/ bindSubmitForm
    \/ \E field \in {"role", "description", "since"}, m \in MemberFormValues :
            EditMemberForm(field, m[field])
    \/ Confirm
    \/ ConfirmContinue
    \/ TriggerSubmit
    \/ \E i \in 1..MaxMutations : MutationResolved(i)
    \/ \E i \in 1..MaxMutations : MutationRejected(i)

SpecModal == InitModal /\ [][NextModal]_vars

\* ------------------------------------------------------------------------
\* Properties of prepareExpenseForSubmit and validate (SpecPure)
\* ------------------------------------------------------------------------
Prepared == called = "prepareExpenseForSubmit"
Validated == called = "validate"

\* C1: when the draft's type is INVOICE no item of the payload has a `url`,
\* whatever the input items hold; for any other type (RECEIPT, or no type)
\* every item that has a `url` keeps it, unchanged, in the payload.
C1_InvoiceItemsHaveNoUrl ==
    Prepared =>
        /\ DOMAIN returned.items = DOMAIN expenseData.items
        /\ \A i \in DOMAIN expenseData.items :
            IF StrEq(expenseData, "type", INVOICE)
            THEN "url" \notin DOMAIN returned.items[i]
            ELSE "url" \in DOMAIN expenseData.items[i] =>
                    /\ "url" \in DOMAIN returned.items[i]
                    /\ returned.items[i].url = expenseData.items[i].url

C1_Witness ==
    /\ Prepared
    /\ StrEq(expenseData, "type", INVOICE)
    /\ Len(expenseData.items) = 2
    /\ \A i \in DOMAIN expenseData.items : "url" \in DOMAIN expenseData.items[i]

\* C2: the payload item has no `id` when the item's __isNew flag is set and
\* carries the item's `id` otherwise; `description`, `incurredAt` and `amount`
\* are in every payload item, with the item's values.
C2_NewItemsOmitId ==
    Prepared =>
        \A i \in DOMAIN expenseData.items :
            LET item == expenseData.items[i]
                out == returned.items[i]
            IN  /\ IsTrue(item, "__isNew") => "id" \notin DOMAIN out
                /\ ~IsTrue(item, "__isNew") => "id" \in DOMAIN out /\ out.id = item.id
                /\ \A k \in {"description", "incurredAt", "amount"} :
                        k \in DOMAIN out /\ out[k] = item[k]

C2_Witness ==
    /\ Prepared
    /\ Len(expenseData.items) = 2
    /\ IsTrue(expenseData.items[1], "__isNew")
    /\ "__isNew" \in DOMAIN expenseData.items[2]
    /\ ~IsTrue(expenseData.items[2], "__isNew")

\* the legacy numeric identifier of a payee: its legacyId, and for an API v1
\* profile (numeric id, no legacyId) the id itself
LegacyNumericId(payee) == IF "legacyId" \in DOMAIN payee THEN payee.legacyId ELSE payee.id

\* C3: a payee that is set is reduced to an object with exactly one field:
\* {id: payee.id} when payee.id is a string, otherwise {legacyId: n} with n
\* the payee's legacy numeric identifier; {id: "abc"} gives {id: "abc"} and
\* {id: 42, legacyId: 42} gives {legacyId: 42}.
C3_PayeeReduced ==
    Prepared /\ IsSet(expenseData.payee) =>
        /\ Cardinality(DOMAIN returned.payee) = 1
        /\ typeof(expenseData.payee.id) = "string" =>
                returned.payee = [id |-> expenseData.payee.id]
        /\ typeof(expenseData.payee.id) # "string" =>
                /\ returned.payee = [legacyId |-> LegacyNumericId(expenseData.payee)]
                /\ typeof(returned.payee.legacyId) = "number"
        /\ expenseData.payee = [id |-> Str("abc")] => returned.payee = [id |-> Str("abc")]
        /\ expenseData.payee = [id |-> Num(42), legacyId |-> Num(42)] =>
                returned.payee = [legacyId |-> Num(42)]

C3_Witness ==
    /\ Prepared
    /\ expenseData.payee = [id |-> Num(42), legacyId |-> Num(42)]
    /\ returned.payee = [legacyId |-> Num(42)]

\* C4: validate returns the empty mapping exactly when description, payee,
\* payoutMethod and currency are all set and non-empty, every item's validator
\* result is empty and the payout method validator's result is empty; an empty
\* description always gives a required-field error keyed `description`; and
\* `items` is a key of the mapping only if some item has errors.
C4_ValidateEmptyIffValid ==
    Validated =>
        /\ isEmpty(returned) <=>
                /\ StrSet(expenseData, "description")
                /\ IsSet(expenseData.payee)
                /\ IsSet(expenseData.payoutMethod)
                /\ StrSet(expenseData, "currency")
                /\ \A i \in DOMAIN expenseData.items :
                        isEmpty(validateExpenseItem(expenseData, expenseData.items[i]))
                /\ isEmpty(validatePayoutMethod(expenseData.payoutMethod))
        /\ expenseData.description = "" =>
                /\ "description" \in DOMAIN returned
                /\ returned.description = FORM_FIELD_REQUIRED
        /\ "items" \in DOMAIN returned =>
                \E i \in DOMAIN expenseData.items :
                    ~isEmpty(validateExpenseItem(expenseData, expenseData.items[i]))

C4_Witness ==
    /\ Validated
    /\ isEmpty(returned)
    /\ Len(expenseData.items) = 2

\* ------------------------------------------------------------------------
\* Properties of the expense form (SpecForm)
\* ------------------------------------------------------------------------
SubmitEnabled == ~submitDisabled(values, errors)

OnSubmitCalled == \E i \in DOMAIN calls : calls[i].fn = "onSubmit"

\* C5: the submit control is enabled only if type and description are set,
\* there is at least one item, payoutMethod is set and the form holds no
\* validation error; with no item it is disabled even if payoutMethod is set.
C5_SubmitGating ==
    /\ SubmitEnabled =>
        /\ StrSet(values, "type")
        /\ StrSet(values, "description")
        /\ Len(values.items) >= 1
        /\ IsSet(values.payoutMethod)
        /\ isEmpty(errors)
    /\ (values.items = <<>> /\ IsSet(values.payoutMethod)) => ~SubmitEnabled

C5_Witness ==
    /\ SubmitEnabled
    /\ event = "change"
    /\ expense = EmptyObject
    /\ IsTrue(values.items[1], "__isNew")

\* C6: payee and payoutMethod are both set whenever the submit control is
\* enabled.
C6_PayeeSetWhenSubmitEnabled ==
    SubmitEnabled => IsSet(values.payee) /\ IsSet(values.payoutMethod)

\* C7: onSubmit is called only by a submit attempt and only with the form's
\* values when validate returns the empty mapping for them; a submit attempt
\* on values with a validation error sets the form errors to that mapping and
\* does not call onSubmit.
C7_OnSubmitOnlyWhenValid ==
    /\ \A i \in DOMAIN calls :
        calls[i].fn = "onSubmit" =>
            /\ event = "submit"
            /\ calls[i].arg = values
            /\ isEmpty(validate(calls[i].arg))
    /\ (event = "submit" /\ ~isEmpty(validate(values))) =>
            /\ ~OnSubmitCalled
            /\ errors = validate(values)

C7_Witness ==
    /\ event = "submit"
    /\ ~isEmpty(validate(values))
    /\ errors = validate(values)
    /\ ~OnSubmitCalled

\* The validation mode rule of one step within a form session: the mode never
\* goes back from on-every-change to on-submit-only; it switches only at a submit attempt
\* that fails validation, and every such attempt switches it; a successful
\* attempt leaves it; a change validates the new values exactly when the mode
\* is on-every-change.
C8_ValidationModeStep ==
    event' # "mount" =>
        /\ hasValidate => hasValidate'
        /\ (~hasValidate /\ hasValidate') =>
                (event' = "submit" /\ ~isEmpty(validate(values)))
        /\ (event' = "submit" /\ ~isEmpty(validate(values))) => hasValidate'
        /\ (event' = "submit" /\ isEmpty(validate(values))) => hasValidate' = hasValidate
        /\ event' = "change" =>
                errors' = IF hasValidate THEN validate(values') ELSE EmptyObject

\* C8: every step of a form session keeps to the validation mode rule above:
\* on-submit-only until the first submit attempt that fails validation,
\* on-every-change from then on.
C8_ValidationMode == [][C8_ValidationModeStep]_vars

C8_Witness ==
    /\ ~validateOnChange
    /\ hasValidate
    /\ event = "change"
    /\ ~isEmpty(errors)

\* C9: a form mounted with a persister that holds a saved draft has the
\* draft's values field for field, except that payoutMethod is undefined when
\* the draft's payout method is a bank account and the host has no TransferWise.
C9_DraftRoundTrip ==
    (event = "mount" /\ calls # <<>> /\ calls[1].fn = "loadValues" /\ calls[1].arg # JSNull) =>
        LET saved == calls[1].arg
            unsupported ==
                /\ IsSet(saved.payoutMethod)
                /\ saved.payoutMethod.type = PayoutMethodType.BANK_ACCOUNT
                /\ ~transferwise
        IN  /\ DOMAIN values = DOMAIN saved
            /\ \A k \in DOMAIN saved :
                IF k = "payoutMethod" /\ unsupported
                THEN values[k] = JSUndefined
                ELSE values[k] = saved[k]

C9_Witness ==
    /\ event = "mount"
    /\ calls # <<>>
    /\ calls[1].fn = "loadValues"
    /\ calls[1].arg # JSNull
    /\ calls[1].arg.payoutMethod = BankPayoutMethod
    /\ ~transferwise
    /\ values.payoutMethod = JSUndefined
    /\ values.description = "dinner"

\* ------------------------------------------------------------------------
\* Properties of the member edit modal (SpecModal)
\* ------------------------------------------------------------------------
\* C10: a confirm with a bound sub-form submit function calls that function
\* first and then issues one editMember mutation whose variables are the
\* member's slug, the collective's slug and the role, description and since
\* of the member form; with no function bound no mutation is issued.
C10_ConfirmIssuesMemberFormValues ==
    /\ modalCalls \in {<<>>, <<"submitMemberForm", "editMemberAccount">>}
    /\ submitMemberForm = "null" => mutations = <<>>
    /\ \A i \in DOMAIN mutations :
        mutations[i].from = "confirm" =>
            /\ mutations[i].variables.memberAccount = [slug |-> MemberSlug]
            /\ mutations[i].variables.account = [slug |-> CollectiveSlug]
            /\ mutations[i].variables.role = mutations[i].form.role
            /\ mutations[i].variables.description = mutations[i].form.description
            /\ mutations[i].variables.since = mutations[i].form.since

InFlight == {i \in DOMAIN mutations : mutations[i].state = "inflight"}
InFlightFromConfirm == {i \in InFlight : mutations[i].from = "confirm"}

\* C11: the submitting flag is true while a mutation issued by confirm is in
\* flight, and it is false when the handler has ended with the remote call's
\* error.
C11_SubmittingWhileInFlight ==
    /\ InFlightFromConfirm # {} => submitting
    /\ thrown = "mutationError" => ~submitting

\* C12: at most one mutation issued by confirm is outstanding at any time.
C12_OneMutationOutstanding == Cardinality(InFlightFromConfirm) <= 1

\* ------------------------------------------------------------------------
\* Draft loading of the expense form (SpecForm)
\* ------------------------------------------------------------------------
\* C13: the persisted draft is loaded at mount only: at mount saveValues is
\* not called before loadValues, and no handler after the mount calls
\* loadValues and replaces the form's values by a stored draft, whatever edits
\* were made (edits back to the initial values included).
C13_DraftLoadedAtMountOnly ==
    /\ event = "mount" =>
        \A i \in DOMAIN calls :
            calls[i].fn = "saveValues" =>
                \E j \in 1..(i - 1) : calls[j].fn = "loadValues"
    /\ event # "mount" =>
        ~\E i \in DOMAIN calls : calls[i].fn = "loadValues" /\ calls[i].arg # JSNull

====
